---- MODULE Spec2Model ----
(***************************************************************************)
(* A model of the Enarx WebAssembly runtime:                               *)
(*   - Runtime::execute (crates/exec-wasmtime/src/runtime/mod.rs),         *)
(*   - the host::attestation_report bridge and wasmhelper::read / write,   *)
(*   - the TLS Stream and Listener of internal/wasmldr (tls.rs).           *)
(*                                                                         *)
(* TLC's integers are 32-bit, so a machine word has WordBits bits here     *)
(* and every cast `as u32` is taken modulo 2^WordBits.  Strings that the   *)
(* code formats or joins are sequences of one-character strings.           *)
(***************************************************************************)
EXTENDS Integers, Sequences, FiniteSets, TLC

VARIABLES
    \* Runtime::execute
    pc,          \* "start" | "guest" | "returned" | "failed"
    config,      \* the destructured Config: files, env, args
    netFail,     \* slots whose listen_file / connect_file fails (environment)
    arity,       \* result arity of the module's default function
    table,       \* WasiCtx descriptor table: fd -> [file, caps]
    env,         \* WasiCtx env, in push order
    argv,        \* WasiCtx args, in push order
    entries,     \* number of times the default function was called
    callres,     \* how func.call ended
    result,      \* what execute returned
    \* host::attestation_report
    hasMemory,   \* the guest exports a memory named "memory"
    mem,         \* that memory: its size and its non-zero bytes
    platform,    \* what Platform::get() gives: "ok" | "err"
    att,         \* the last attestation_report call
    \* TLS Listener and Stream objects and the OS fds they wrap
    fdt,         \* OS fds ever opened: fd -> number of close() calls on it
    listener,    \* the Listener: alive, and its fd
    streams,     \* the Streams the guest holds
    acc,         \* the last sock_accept / connect / drop
    \* one TLS Stream after its handshake, and its peer
    tls,         \* the rustls Connection of Stream.lck
    wire,        \* the TCP endpoint: records in flight both ways
    nb,          \* the socket is non-blocking
    peerWrote,   \* plaintext bytes the peer has written
    guestRead,   \* plaintext bytes read_vectored has returned to the guest
    guestWrote,  \* plaintext bytes the TLS writer has taken from the guest
    io,          \* the last file operation on the Stream
    \* the preview-0 shim
    inner,       \* Ctx.inner: descriptor table, env, args
    sys,         \* the last preview-0 call of the guest
    \* two callers of one Stream
    lck,         \* who holds Stream.lck
    tpc          \* where each caller is in its call

execVars == <<pc, config, netFail, arity, table, env, argv, entries, callres, result>>

attVars == <<hasMemory, mem, platform, att>>

connVars == <<fdt, listener, streams, acc>>

tlsVars == <<tls, wire, nb, peerWrote, guestRead, guestWrote, io>>

shimVars == <<inner, sys>>

lockVars == <<lck, tpc>>

vars == <<execVars, attVars, connVars, tlsVars, shimVars, lockVars>>

(***************************************************************************)
(* Bounds of the model.                                                    *)
(***************************************************************************)
WordBits == 8
MaxFiles == 2
MaxArity == 1
MaxConns == 2
MaxScript == 3
MaxPeerBytes == 2
MaxGuestBytes == 2
MaxFd == 2

(***************************************************************************)
(* Machine words.                                                          *)
(***************************************************************************)
WordMod == 2 ^ WordBits
U32Max == WordMod - 1
I32Min == 0 - (WordMod \div 2)
I32Max == (WordMod \div 2) - 1

\* `x as u32` for an i32 x
AsU32(x) == x % WordMod

\* usize -> u32 `try_into()`
TryIntoU32Ok(n) == n <= U32Max

(***************************************************************************)
(* Strings as character sequences: usize::to_string, [&str]::join and      *)
(* str::split.                                                             *)
(***************************************************************************)
Digits == <<"0", "1", "2", "3", "4", "5", "6", "7", "8", "9">>

RECURSIVE ToDecimal(_)
ToDecimal(n) ==
    IF n < 10 THEN <<Digits[n + 1]>>
    ELSE ToDecimal(n \div 10) \o <<Digits[(n % 10) + 1]>>

DigitVal(c) == CHOOSE d \in 0..9 : Digits[d + 1] = c

RECURSIVE ParseDecimalAcc(_, _)
ParseDecimalAcc(s, sofar) ==
    IF s = <<>> THEN sofar
    ELSE ParseDecimalAcc(Tail(s), sofar * 10 + DigitVal(Head(s)))

\* str::parse::<usize>() of a digit string
ParseDecimal(s) == ParseDecimalAcc(s, 0)

RECURSIVE Join(_, _)
Join(strs, sep) ==
    IF strs = <<>> THEN <<>>
    ELSE IF Len(strs) = 1 THEN strs[1]
    ELSE strs[1] \o sep \o Join(Tail(strs), sep)

\* str::split(c): one piece more than there are separators, also for ""
RECURSIVE Split(_, _)
Split(s, c) ==
    IF s = <<>> THEN << <<>> >>
    ELSE IF Head(s) = c THEN << <<>> >> \o Split(Tail(s), c)
    ELSE LET r == Split(Tail(s), c)
         IN  << <<Head(s)>> \o r[1] >> \o Tail(r)

Colon == <<":">>

(***************************************************************************)
(* Config values the model draws from.                                     *)
(***************************************************************************)
Kinds == {"Null", "Stdin", "Stdout", "Stderr", "Listen", "Connect"}
NetKinds == {"Listen", "Connect"}
Slot(kind, name) == [kind |-> kind, name |-> name]
\* Every kind, and a net and a non-net slot with each of: an empty name, a
\* plain name, a name that holds the separator.
Slots ==
    { Slot("Null", <<>>), Slot("Stdin", <<"a">>), Slot("Stdout", <<":">>),
      Slot("Stderr", <<"a">>), Slot("Listen", <<"a">>), Slot("Listen", <<":">>),
      Slot("Connect", <<>>), Slot("Connect", <<"a">>) }
FilesSet == UNION {[1..n -> Slots] : n \in 0..MaxFiles}

EnvVar(k, v) == [k |-> k, v |-> v]
EnvSamples ==
    { <<>>,
      <<EnvVar("FD_COUNT", <<"9">>), EnvVar("K", <<"a">>)>> }
ArgSamples == { <<>>, <<"b", "a">> }

Configs == [files : FilesSet, env : EnvSamples, args : ArgSamples]
EmptyConfig == [files |-> <<>>, env |-> <<>>, args |-> <<>>]

NetSlots(files) == {i \in 1..Len(files) : files[i].kind \in NetKinds}

(***************************************************************************)
(* Results and errors.  An error is the context added last and the cause   *)
(* it wraps (anyhow's chain).                                              *)
(***************************************************************************)
Cause(what) == [kind |-> what, hasExit |-> FALSE, code |-> 0]
NoCause == Cause("none")
NoResult == [ok |-> FALSE, values |-> <<>>, context |-> "none", cause |-> NoCause]
OkResult(vals) == [ok |-> TRUE, values |-> vals, context |-> "none", cause |-> NoCause]
ErrResult(ctx, cause) == [ok |-> FALSE, values |-> <<>>, context |-> ctx, cause |-> cause]

(***************************************************************************)
(* Runtime::execute, lines 131-146: the provisioning loop.                 *)
(***************************************************************************)
\* The object built for one slot (lines 134-143); `slot` records which
\* element of files it was built from.
BuildFile(file, slot) ==
    [ kind |-> file.kind,
      slot |-> slot,
      caps |-> IF file.kind = "Null" THEN "all" ELSE "helper" ]

\* ctx.insert_file(fd, file, caps)
InsertFile(tab, fd, obj) ==
    [f \in (DOMAIN tab) \cup {fd} |-> IF f = fd THEN obj ELSE tab[f]]

\* A mutant of ProvisionStep: a slot whose setup fails is skipped and the loop
\* goes on.
ProvisionStepSkipsFailure(files, failing, i, st) ==
    LET file == files[i]
        fd == i - 1
        names2 == Append(st.names, file.name)
    IN  IF file.kind \in NetKinds /\ i \in failing
        THEN [st EXCEPT !.names = names2]
        ELSE [st EXCEPT !.names = names2,
                        !.table = InsertFile(st.table, fd, BuildFile(file, i))]

\* One iteration of `for (fd, file) in files.iter().enumerate()`.
ProvisionStep(files, failing, i, st) ==
    LET file == files[i]
        fd == i - 1
        names2 == Append(st.names, file.name)
    IN  IF file.kind = "Listen" /\ i \in failing
        THEN [st EXCEPT !.names = names2,
                        !.err = ErrResult("failed to setup listening socket", Cause("listen_file"))]
        ELSE IF file.kind = "Connect" /\ i \in failing
        THEN [st EXCEPT !.names = names2,
                        !.err = ErrResult("failed to setup connection stream", Cause("connect_file"))]
        ELSE IF ~TryIntoU32Ok(fd)
        THEN [st EXCEPT !.names = names2,
                        !.err = ErrResult("too many open files", Cause("TryFromIntError"))]
        ELSE [st EXCEPT !.names = names2,
                        !.table = InsertFile(st.table, fd, BuildFile(file, i))]

RECURSIVE ProvisionFrom(_, _, _, _)
ProvisionFrom(files, failing, i, st) ==
    IF i > Len(files) \/ st.err # NoResult THEN st
    ELSE ProvisionFrom(files, failing, i + 1, ProvisionStep(files, failing, i, st))

\* The table of WasiCtxBuilder::new().build() (line 120), before the loop.
EmptyTable == [f \in {} |-> 0]

Provision(files, failing) ==
    ProvisionFrom(files, failing, 1,
                  [names |-> <<>>, table |-> EmptyTable, err |-> NoResult])

(***************************************************************************)
(* Runtime::execute, lines 147-161: the environment and the arguments.     *)
(* pushFail is the number of the push_env / push_arg call that fails       *)
(* (0: none does).                                                         *)
(***************************************************************************)
\* A mutant of FdNamesValue: the names are joined with a trailing separator.
FdNamesTrailingColon(names) ==
    IF names = <<>> THEN <<>> ELSE Join(names, Colon) \o Colon

\* names.join(":"), line 149
FdNamesValue(names) == Join(names, Colon)

\* The sequence of push_env calls execute makes, in order.
EnvPushes(names, userEnv) ==
    << EnvVar("FD_COUNT", ToDecimal(Len(names))),
       EnvVar("FD_NAMES", FdNamesValue(names)) >> \o userEnv

\* The sequence of push_arg calls execute makes, in order.
ArgPushes(args) == <<"main.wasm">> \o args

EnvPushContext(n) ==
    IF n = 1 THEN "failed to set environment variable FD_COUNT"
    ELSE IF n = 2 THEN "failed to set environment variable FD_NAMES"
    ELSE "failed to set environment variable {k}"

ArgPushContext(n) ==
    IF n = 1 THEN "failed to push argv[0]" ELSE "failed to push argument"

\* The pushes done when call number pushFail fails (all of them when 0).
PushAll(names, cfg, pushFail) ==
    LET envs == EnvPushes(names, cfg.env)
        args == ArgPushes(cfg.args)
        ne == Len(envs)
    IN  IF pushFail = 0
        THEN [env |-> envs, argv |-> args, err |-> NoResult]
        ELSE IF pushFail <= ne
        THEN [env |-> SubSeq(envs, 1, pushFail - 1), argv |-> <<>>,
              err |-> ErrResult(EnvPushContext(pushFail), Cause("StringArrayError"))]
        ELSE [env |-> envs, argv |-> SubSeq(args, 1, pushFail - ne - 1),
              err |-> ErrResult(ArgPushContext(pushFail - ne), Cause("StringArrayError"))]

NumPushes(cfg) == 2 + Len(cfg.env) + 1 + Len(cfg.args)

(***************************************************************************)
(* Runtime::execute, lines 71-165: everything before the guest is entered. *)
(***************************************************************************)
\* The steps before the provisioning loop that can fail, with the context
\* execute adds ("none": the error is returned as it is).
EarlySteps(steward) ==
    { <<"identity::generate", "none">>,
      <<"package.try_into", "none">>,
      IF steward THEN <<"identity::steward", "failed to attest to Steward">>
      ELSE <<"identity::selfsigned", "failed to generate self-signed certificates">>,
      <<"Engine::new", "failed to create execution engine">>,
      <<"add_to_linker", "failed to setup linker and add WASI">>,
      <<"func_wrap", "none">>,
      <<"Module::from_binary", "failed to compile Wasm module">>,
      <<"linker.module", "failed to link module">> }

ExecuteFailEarly ==
    /\ pc = "start"
    /\ \E steward \in BOOLEAN : \E step \in EarlySteps(steward) :
          result' = ErrResult(step[2], Cause(step[1]))
    /\ pc' = "failed"
    /\ UNCHANGED <<config, netFail, arity, table, env, argv, entries, callres>>
    /\ UNCHANGED <<attVars, connVars, tlsVars, shimVars, lockVars>>

\* Lines 74-165 with every earlier step succeeding.
ExecuteSetup ==
    /\ pc = "start"
    /\ \E cfg \in Configs, failing \in SUBSET (1..MaxFiles), ar \in 0..MaxArity,
          getDefaultOk \in BOOLEAN :
        /\ failing \subseteq NetSlots(cfg.files)
        /\ \E pushFail \in 0..NumPushes(cfg) :
            LET prov == Provision(cfg.files, failing)
                push == PushAll(prov.names, cfg, pushFail)
            IN  /\ config' = cfg
                /\ netFail' = failing
                /\ table' = prov.table
                /\ IF prov.err # NoResult
                   THEN /\ pushFail = 0 /\ getDefaultOk /\ ar = 0
                        /\ env' = <<>> /\ argv' = <<>>
                        /\ arity' = 0
                        /\ result' = prov.err
                        /\ pc' = "failed"
                   ELSE IF push.err # NoResult
                   THEN /\ getDefaultOk /\ ar = 0
                        /\ env' = push.env /\ argv' = push.argv
                        /\ arity' = 0
                        /\ result' = push.err
                        /\ pc' = "failed"
                   ELSE IF ~getDefaultOk
                   THEN /\ ar = 0
                        /\ env' = push.env /\ argv' = push.argv
                        /\ arity' = 0
                        /\ result' = ErrResult("failed to get default function", Cause("get_default"))
                        /\ pc' = "failed"
                   ELSE /\ env' = push.env /\ argv' = push.argv
                        /\ arity' = ar
                        /\ result' = NoResult
                        /\ pc' = "guest"
    /\ UNCHANGED <<entries, callres>>
    /\ UNCHANGED <<attVars, connVars, tlsVars, shimVars, lockVars>>

(***************************************************************************)
(* Runtime::execute, lines 167-174: the call and what is made of its end.  *)
(***************************************************************************)
NoCall == Cause("none")
CallOutcomes ==
    { [kind |-> "ok", hasExit |-> FALSE, code |-> 0],
      [kind |-> "trap", hasExit |-> FALSE, code |-> 0],
      [kind |-> "trap", hasExit |-> TRUE, code |-> 0],
      [kind |-> "trap", hasExit |-> TRUE, code |-> 1],
      [kind |-> "trap", hasExit |-> TRUE, code |-> I32Min],
      [kind |-> "error", hasExit |-> FALSE, code |-> 0] }

\* vec![Val::null(); func.ty(&wstore).results().len()]
NullValues(n) == [i \in 1..n |-> "null"]
\* what a normal return leaves in the vector
ReturnedValues(n) == [i \in 1..n |-> "val"]

\* A mutant of InterpretCall: every exit status counts as success.
InterpretCallAnyExit(out, values) ==
    IF out.kind = "ok" THEN OkResult(ReturnedValues(Len(values)))
    ELSE IF out.kind = "trap" /\ out.hasExit THEN OkResult(values)
    ELSE ErrResult("failed to execute default function", out)

\* Lines 168-174.
InterpretCall(out, values) ==
    IF out.kind = "ok" THEN OkResult(ReturnedValues(Len(values)))
    ELSE IF out.kind = "trap" /\ out.hasExit /\ out.code = 0 THEN OkResult(values)
    ELSE ErrResult("failed to execute default function", out)

GuestCall ==
    /\ pc = "guest"
    /\ entries = 0
    /\ \E out \in CallOutcomes :
        /\ callres' = out
        /\ result' = InterpretCall(out, NullValues(arity))
        /\ pc' = IF result'.ok THEN "returned" ELSE "failed"
    /\ entries' = entries + 1
    /\ UNCHANGED <<config, netFail, arity, table, env, argv>>
    /\ UNCHANGED <<attVars, connVars, tlsVars, shimVars, lockVars>>

(***************************************************************************)
(* Guest linear memory.  A memory is its size in bytes and the map of its  *)
(* non-zero bytes; every other byte below size is zero.  A byte vector     *)
(* read from it (Vec<u8>) has the same shape.                              *)
(***************************************************************************)
PageBytes == WordMod \div 4
MemSizes == {0, PageBytes, WordMod}

Min(a, b) == IF a <= b THEN a ELSE b

ByteAt(m, a) == IF a \in DOMAIN m.nz THEN m.nz[a] ELSE 0

\* The bytes of m at ptr .. ptr+n-1 as a vector of their own.
Slice(m, p, n) ==
    [ size |-> n,
      nz |-> [i \in {a - p : a \in {b \in DOMAIN m.nz : p <= b /\ b < p + n}}
                |-> m.nz[i + p]] ]

NoBytes == [size |-> 0, nz |-> [a \in {} |-> 0]]

\* wasmhelper::read, lines 39-49.  `exported` says whether get_export("memory")
\* gives a memory.
WasmRead(exported, m, ptr, len) ==
    LET p == AsU32(ptr)
        n == AsU32(len)
    IN  IF ~exported THEN [ok |-> FALSE, data |-> NoBytes]
        ELSE IF p > m.size THEN [ok |-> FALSE, data |-> NoBytes]
        ELSE IF n > m.size - p THEN [ok |-> FALSE, data |-> NoBytes]
        ELSE [ok |-> TRUE, data |-> Slice(m, p, n)]

\* m with data[1..k] stored at p .. p+k-1
Store(m, p, k, data) ==
    LET new(a) == IF p <= a /\ a < p + k THEN data[a - p + 1] ELSE ByteAt(m, a)
        touched == (DOMAIN m.nz) \cup (p .. (p + k - 1))
    IN  [ size |-> m.size,
          nz |-> [a \in {b \in touched : new(b) # 0} |-> new(a)] ]

\* A mutant of WasmWrite: when the region runs past the end of memory the part
\* that fits is still written.
WasmWritePartial(exported, m, ptr, len, data) ==
    LET p == AsU32(ptr)
        k == Min(Len(data), AsU32(len))
    IN  IF ~exported THEN [mem |-> m, wrote |-> 0, panic |-> FALSE]
        ELSE IF p > m.size THEN [mem |-> m, wrote |-> 0, panic |-> FALSE]
        ELSE LET j == Min(k, m.size - p)
             IN  [mem |-> Store(m, p, j, data), wrote |-> j, panic |-> FALSE]

\* wasmhelper::write, lines 51-63.  copy_from_slice(&data[..arr.len()]) panics
\* when arr is longer than data.
WasmWrite(exported, m, ptr, len, data) ==
    LET p == AsU32(ptr)
        k == Min(Len(data), AsU32(len))
    IN  IF ~exported THEN [mem |-> m, wrote |-> 0, panic |-> FALSE]
        ELSE IF p > m.size THEN [mem |-> m, wrote |-> 0, panic |-> FALSE]
        ELSE IF k > m.size - p THEN [mem |-> m, wrote |-> 0, panic |-> FALSE]
        ELSE IF k > Len(data) THEN [mem |-> m, wrote |-> 0, panic |-> TRUE]
        ELSE [mem |-> Store(m, p, k, data), wrote |-> k, panic |-> FALSE]

(***************************************************************************)
(* The host::attestation_report closure, lines 99-117.                     *)
(***************************************************************************)
NonceMax == 64

\* What platform.attest gives: an error, or a report.
ReportSamples == { <<>>, <<1, 2>> }
AttestOutcomes == { [ok |-> FALSE, report |-> <<>>] }
                    \cup { [ok |-> TRUE, report |-> r] : r \in ReportSamples }

AttResult(m, stage, nonce, report, wrote, panic) ==
    [mem |-> m, stage |-> stage, nonce |-> nonce, report |-> report,
     wrote |-> wrote, panic |-> panic]

\* A mutant of AttestationReportCall: the `len > 64` test is missing.
AttestationReportNoLenTest(exported, m, plat, ptr, len, out_ptr, out_len, attest) ==
    LET rd == WasmRead(exported, m, ptr, len)
        wr == WasmWrite(exported, m, out_ptr, out_len, attest.report)
    IN  IF plat # "ok" THEN AttResult(m, "platform", NoBytes, <<>>, 0, FALSE)
        ELSE IF ~rd.ok THEN AttResult(m, "read", NoBytes, <<>>, 0, FALSE)
        ELSE IF ~attest.ok THEN AttResult(m, "attest", rd.data, <<>>, 0, FALSE)
        ELSE AttResult(wr.mem, "write", rd.data, attest.report, wr.wrote, wr.panic)

\* The closure: where it returned ("len", "platform", "read", "attest": one of
\* the early returns; "write": after wasmhelper::write), the nonce handed to
\* platform.attest, the report, and the memory it leaves.
AttestationReportCall(exported, m, plat, ptr, len, out_ptr, out_len, attest) ==
    LET rd == WasmRead(exported, m, ptr, len)
        wr == WasmWrite(exported, m, out_ptr, out_len, attest.report)
    IN  IF len > NonceMax THEN AttResult(m, "len", NoBytes, <<>>, 0, FALSE)
        ELSE IF plat # "ok" THEN AttResult(m, "platform", NoBytes, <<>>, 0, FALSE)
        ELSE IF ~rd.ok THEN AttResult(m, "read", NoBytes, <<>>, 0, FALSE)
        ELSE IF ~attest.ok THEN AttResult(m, "attest", rd.data, <<>>, 0, FALSE)
        ELSE AttResult(wr.mem, "write", rd.data, attest.report, wr.wrote, wr.panic)

\* The i32 arguments the guest passes.
PtrSamples == {0, PageBytes, -1}
LenSamples == {I32Min, -1, 0, 2, NonceMax, NonceMax + 1}
OutPtrSamples == {0, PageBytes - 1, -1}
OutLenSamples == {-1, 0, 1, 3}

NoAtt ==
    [ ptr |-> 0, len |-> 0, out_ptr |-> 0, out_len |-> 0, called |-> FALSE,
      attested |-> FALSE, attestOk |-> FALSE,
      res |-> AttResult(NoBytes, "none", NoBytes, <<>>, 0, FALSE),
      before |-> NoBytes ]

\* The guest calls host::attestation_report; att keeps the call until the
\* guest goes on (GuestResume).
AttestationReport ==
    /\ ~att.called
    /\ \E ptr \in PtrSamples, len \in LenSamples, out_ptr \in OutPtrSamples,
          out_len \in OutLenSamples, attest \in AttestOutcomes :
        LET r == AttestationReportCall(hasMemory, mem, platform, ptr, len,
                                       out_ptr, out_len, attest)
            reached == r.stage \in {"attest", "write"}
        IN  \* platform.attest has an outcome only when it is called
            /\ ~reached => attest = [ok |-> FALSE, report |-> <<>>]
            /\ att' = [ ptr |-> ptr, len |-> len, out_ptr |-> out_ptr,
                        out_len |-> out_len, called |-> TRUE,
                        attested |-> reached, attestOk |-> reached /\ attest.ok,
                        res |-> r, before |-> mem ]
            /\ mem' = r.mem
    /\ UNCHANGED <<hasMemory, platform>>
    /\ UNCHANGED <<execVars, connVars, tlsVars, shimVars, lockVars>>

\* memory.grow by the guest: the memory only gets larger.
MemoryGrow ==
    /\ ~att.called
    /\ hasMemory
    /\ \E s \in MemSizes : s > mem.size /\ mem' = [mem EXCEPT !.size = s]
    /\ UNCHANGED <<hasMemory, platform, att>>
    /\ UNCHANGED <<execVars, connVars, tlsVars, shimVars, lockVars>>

\* The bytes the guest has stored before it calls: a mark at the places the
\* calls touch.
Marked(size) ==
    [ size |-> size,
      nz |-> [a \in {b \in {0, 1, PageBytes - 1, WordMod - 1} : b < size} |-> 3] ]

AttInit ==
    /\ hasMemory \in BOOLEAN
    /\ platform \in {"ok", "err"}
    /\ mem \in IF hasMemory THEN {Marked(0), Marked(PageBytes)} ELSE {NoBytes}
    /\ att = NoAtt

\* The guest runs on after the call returned.
GuestResume ==
    /\ att.called
    /\ att' = NoAtt
    /\ UNCHANGED <<hasMemory, mem, platform>>
    /\ UNCHANGED <<execVars, connVars, tlsVars, shimVars, lockVars>>

AttNext == AttestationReport \/ MemoryGrow \/ GuestResume


(***************************************************************************)
(* tls.rs: the two handles over one OS fd, and what dropping them does.    *)
(* fdt is the sequence of close() counts of the fds opened so far.         *)
(***************************************************************************)
OpenFd(f) == Append(f, 0)
CloseFd(f, fd) == [f EXCEPT ![fd] = @ + 1]

\* Dropping a cap_std TcpStream / TcpListener that owns fd closes it.
CapDrop(f, fd) == CloseFd(f, fd)

\* A mutant of ForgottenDrop: the wrapper has no Drop of its own, so the
\* handle inside is dropped and closes the fd.
ForgottenDropCloses(f, fd) == CloseFd(f, fd)

\* Drop for Forgotten<T>, lines 38-42: forget(self.0.take()).
ForgottenDrop(f, fd) == f

\* Dropping the mirror handle (AnyStream / AnyListener from_cap_std(tcp)).
AnyDrop(f, fd) == CapDrop(f, fd)

\* Dropping a Stream (lines 44-47): lck, holding the Forgotten handle, then any.
StreamDrop(f, fd) == AnyDrop(ForgottenDrop(f, fd), fd)

\* Dropping a Listener (lines 205-209): cap (Forgotten), then any.
ListenerDrop(f, fd) == AnyDrop(ForgottenDrop(f, fd), fd)

(***************************************************************************)
(* rustls complete_io over a socket, as sock_accept (line 244) and connect *)
(* (line 75) call it on a fresh connection.  hs.need counts the flights    *)
(* still to be received, hs.out the flights queued for sending; script is  *)
(* what the socket does at each read_tls / write_tls call in turn.         *)
(***************************************************************************)
SockEvents == {"ok", "wouldblock", "eof", "bad"}
Scripts == UNION {[1..n -> SockEvents] : n \in 0..MaxScript}

ServerHello == [need |-> 2, out |-> 0]
ClientHello == [need |-> 1, out |-> 1]

IsHandshaking(hs) == hs.need > 0

\* The socket's next answer: a script that ran out is a peer that went away.
NextEvent(script) == IF script = <<>> THEN "eof" ELSE Head(script)
Rest(script) == IF script = <<>> THEN <<>> ELSE Tail(script)

HsResult(ok, hs, err) == [ok |-> ok, hs |-> hs, err |-> err]

RECURSIVE CompleteIo(_, _, _)
CompleteIo(hs, script, eof) ==
    IF hs.out > 0
    THEN \* while self.wants_write() { self.write_tls(io)?; }
         IF NextEvent(script) = "ok"
         THEN CompleteIo([hs EXCEPT !.out = @ - 1], Rest(script), eof)
         ELSE HsResult(FALSE, hs, IF NextEvent(script) = "wouldblock"
                                  THEN "WouldBlock" ELSE "BrokenPipe")
    ELSE IF eof
    THEN \* (true, true, true) => UnexpectedEof
         HsResult(FALSE, hs, "UnexpectedEof")
    ELSE \* self.read_tls(io)?, then process_new_packets()
         LET ev == NextEvent(script)
         IN  IF ev = "wouldblock" THEN HsResult(FALSE, hs, "WouldBlock")
             ELSE IF ev = "bad" THEN HsResult(FALSE, hs, "InvalidData")
             ELSE IF ev = "eof" THEN CompleteIo(hs, Rest(script), TRUE)
             ELSE LET hs2 == [need |-> hs.need - 1, out |-> hs.out + 1]
                  IN  IF ~IsHandshaking(hs2) THEN HsResult(TRUE, hs2, "none")
                      ELSE CompleteIo(hs2, Rest(script), eof)

(***************************************************************************)
(* Errors of the file operations: the error itself (base) and the contexts *)
(* put around it, innermost first.                                         *)
(***************************************************************************)
NoErr == [base |-> "none", contexts |-> <<>>]
IoError(what) == [base |-> what, contexts |-> <<>>]
\* Error::io().context(e).context(msg)
IoWithContext(e, msg) == [base |-> "ErrorKind::Io", contexts |-> <<e, msg>>]
Badf == [base |-> "ErrorKind::Badf", contexts |-> <<>>]

NoStream == [fd |-> 0, mode |-> "none", hs |-> [need |-> 0, out |-> 0],
             nonblocking |-> FALSE]

\* Stream::new, lines 56-63: both handles are over tcp's fd.
StreamNew(fd, mode, hs, nonblocking) ==
    [fd |-> fd, mode |-> mode, hs |-> hs, nonblocking |-> nonblocking]

AccResult(f, ok, step, err, stream) ==
    [fdt |-> f, ok |-> ok, step |-> step, err |-> err, stream |-> stream]

\* What the environment does during one sock_accept / connect.
AcceptInputs ==
    [acceptOk : BOOLEAN, tlsNewOk : BOOLEAN, nonblockOk : BOOLEAN,
     script : Scripts, fdflagsOk : BOOLEAN]

\* A mutant of ListenerSockAccept: the handshake's error is ignored and the
\* Stream is built whatever complete_io said.
ListenerSockAcceptIgnoresHandshake(f, in) ==
    LET fd == Len(f) + 1
        f1 == OpenFd(f)
        hsr == CompleteIo(ServerHello, in.script, FALSE)
    IN  IF ~in.acceptOk
        THEN AccResult(f, FALSE, "accept", IoError("io::Error"), NoStream)
        ELSE AccResult(f1, TRUE, "done", NoErr, StreamNew(fd, "server", hsr.hs, TRUE))

\* Listener::sock_accept, lines 231-251.
ListenerSockAccept(f, in) ==
    LET fd == Len(f) + 1
        f1 == OpenFd(f)
        hsr == CompleteIo(ServerHello, in.script, FALSE)
    IN  IF ~in.acceptOk
        THEN AccResult(f, FALSE, "accept", IoError("io::Error"), NoStream)
        ELSE IF ~in.tlsNewOk
        THEN AccResult(CapDrop(f1, fd), FALSE, "tlsnew",
                       IoWithContext("rustls::Error",
                                     "could not create new TLS connection"), NoStream)
        ELSE IF ~in.nonblockOk
        THEN AccResult(CapDrop(f1, fd), FALSE, "nonblocking",
                       IoError("io::Error"), NoStream)
        ELSE IF ~hsr.ok
        THEN AccResult(CapDrop(f1, fd), FALSE, "handshake",
                       IoWithContext(hsr.err, "could not perform TLS handshake"),
                       NoStream)
        ELSE IF ~in.fdflagsOk
        THEN AccResult(StreamDrop(f1, fd), FALSE, "fdflags",
                       IoError("io::Error"), NoStream)
        ELSE AccResult(f1, TRUE, "done", NoErr, StreamNew(fd, "server", hsr.hs, TRUE))

\* Stream::connect, lines 65-78, on a connected socket the caller opened.
StreamConnect(f, in, nonblocking) ==
    LET fd == Len(f) + 1
        f1 == OpenFd(f)
        hsr == CompleteIo(ClientHello, in.script, FALSE)
    IN  IF ~in.tlsNewOk
        THEN AccResult(CapDrop(f1, fd), FALSE, "tlsnew", IoError("rustls::Error"), NoStream)
        ELSE IF ~hsr.ok
        THEN AccResult(CapDrop(f1, fd), FALSE, "handshake", IoError(hsr.err), NoStream)
        ELSE AccResult(f1, TRUE, "done", NoErr, StreamNew(fd, "client", hsr.hs, nonblocking))

NoAcc ==
    [ op |-> "none", ok |-> FALSE, step |-> "none", err |-> NoErr,
      stream |-> NoStream, cause |-> "none",
      before |-> [alive |-> FALSE, fd |-> 0, closes |-> 0] ]

ListenerView == [alive |-> listener.alive, fd |-> listener.fd,
                 closes |-> fdt[listener.fd]]

\* What made the call fail, as the environment produced it.
CauseOf(r, hs) ==
    IF r.step = "handshake" THEN hs.err
    ELSE IF r.step = "tlsnew" THEN "rustls::Error"
    ELSE IF r.ok THEN "none"
    ELSE "io::Error"

SockAccept ==
    /\ listener.alive
    /\ Len(fdt) <= MaxConns
    /\ \E in \in AcceptInputs :
        LET r == ListenerSockAccept(fdt, in)
        IN  \* one input for each way the call can go
            /\ ~in.acceptOk => in.tlsNewOk /\ in.nonblockOk /\ in.script = <<>> /\ in.fdflagsOk
            /\ ~in.tlsNewOk => in.nonblockOk /\ in.script = <<>> /\ in.fdflagsOk
            /\ ~in.nonblockOk => in.script = <<>> /\ in.fdflagsOk
            /\ r.step = "handshake" => in.fdflagsOk
            /\ fdt' = r.fdt
            /\ streams' = IF r.ok THEN streams \cup {r.stream} ELSE streams
            /\ acc' = [ op |-> "sock_accept", ok |-> r.ok, step |-> r.step,
                        err |-> r.err, stream |-> r.stream,
                        cause |-> CauseOf(r, CompleteIo(ServerHello, in.script, FALSE)),
                        before |-> ListenerView ]
    /\ UNCHANGED listener
    /\ UNCHANGED <<execVars, attVars, tlsVars, shimVars, lockVars>>

Connect ==
    /\ Len(fdt) <= MaxConns
    /\ \E in \in AcceptInputs, nonblocking \in BOOLEAN :
        LET r == StreamConnect(fdt, in, nonblocking)
        IN  /\ in.acceptOk /\ in.nonblockOk /\ in.fdflagsOk
            /\ ~in.tlsNewOk => in.script = <<>>
            \* a blocking socket never answers WouldBlock
            /\ ~nonblocking => \A i \in 1..Len(in.script) : in.script[i] # "wouldblock"
            /\ fdt' = r.fdt
            /\ streams' = IF r.ok THEN streams \cup {r.stream} ELSE streams
            /\ acc' = [ op |-> "connect", ok |-> r.ok, step |-> r.step,
                        err |-> r.err, stream |-> r.stream,
                        cause |-> CauseOf(r, CompleteIo(ClientHello, in.script, FALSE)),
                        before |-> ListenerView ]
    /\ UNCHANGED listener
    /\ UNCHANGED <<execVars, attVars, tlsVars, shimVars, lockVars>>

\* The guest closes a Stream (fd_close), or the table is torn down.
CloseStream ==
    /\ \E s \in streams :
        /\ fdt' = StreamDrop(fdt, s.fd)
        /\ streams' = streams \ {s}
        /\ acc' = [NoAcc EXCEPT !.op = "drop_stream", !.ok = TRUE, !.stream = s,
                                !.before = ListenerView]
    /\ UNCHANGED listener
    /\ UNCHANGED <<execVars, attVars, tlsVars, shimVars, lockVars>>

CloseListener ==
    /\ listener.alive
    /\ fdt' = ListenerDrop(fdt, listener.fd)
    /\ listener' = [listener EXCEPT !.alive = FALSE]
    /\ acc' = [NoAcc EXCEPT !.op = "drop_listener", !.ok = TRUE,
                            !.before = ListenerView]
    /\ UNCHANGED streams
    /\ UNCHANGED <<execVars, attVars, tlsVars, shimVars, lockVars>>

\* Listener::new, lines 212-216, on a bound socket with fd 1.
ConnInit ==
    /\ fdt = OpenFd(<<>>)
    /\ listener = [alive |-> TRUE, fd |-> 1]
    /\ streams = {}
    /\ acc = NoAcc

ConnNext == SockAccept \/ Connect \/ CloseStream \/ CloseListener

(***************************************************************************)
(* The rustls Connection of a Stream after the handshake, at the level of  *)
(* TLS records: what read_tls, process_new_packets, reader(), writer() and *)
(* write_tls do, as Stream::read_vectored / write_vectored call them.      *)
(***************************************************************************)
Rec(t, bytes) == [t |-> t, bytes |-> bytes]

\* cipher: records read from the socket and not yet processed; plain:
\* received plaintext not yet read; sendable: records not yet written.
FreshTls(pending) ==
    [ cipher |-> <<>>, plain |-> <<>>, closeNotify |-> FALSE, seenEof |-> FALSE,
      sendable |-> pending, broken |-> FALSE ]

WantsRead(t) == t.plain = <<>> /\ ~t.closeNotify
WantsWrite(t) == t.sendable # <<>>

TlsStep(ok, err, blocks, t, w) ==
    [ok |-> ok, err |-> err, blocks |-> blocks, tls |-> t, wire |-> w]

\* tls.read_tls(cap): `take` whole records arrive with this read (0: only a
\* part of one); sockErr: the socket fails.
ReadTls(t, w, nonblocking, take, sockErr) ==
    IF sockErr THEN TlsStep(FALSE, "ConnectionReset", FALSE, t, w)
    ELSE IF w.in = <<>>
    THEN IF w.inEof THEN TlsStep(TRUE, "none", FALSE, [t EXCEPT !.seenEof = TRUE], w)
         ELSE IF nonblocking THEN TlsStep(FALSE, "WouldBlock", FALSE, t, w)
         ELSE TlsStep(FALSE, "none", TRUE, t, w)
    ELSE LET k == Min(take, Len(w.in))
         IN  TlsStep(TRUE, "none", FALSE,
                     [t EXCEPT !.cipher = @ \o SubSeq(w.in, 1, k)],
                     [w EXCEPT !.in = SubSeq(@, k + 1, Len(@))])

RECURSIVE ProcessRecords(_, _)
ProcessRecords(recs, t) ==
    IF recs = <<>> THEN [ok |-> TRUE, tls |-> t]
    ELSE LET r == Head(recs)
         IN  IF r.t = "bad" THEN [ok |-> FALSE, tls |-> [t EXCEPT !.broken = TRUE]]
             ELSE IF r.t = "close"
             THEN ProcessRecords(Tail(recs), [t EXCEPT !.closeNotify = TRUE])
             ELSE IF r.t = "data" /\ ~t.closeNotify
             THEN ProcessRecords(Tail(recs), [t EXCEPT !.plain = @ \o r.bytes])
             ELSE ProcessRecords(Tail(recs), t)

\* tls.process_new_packets()
ProcessNewPackets(t) ==
    IF t.broken THEN [ok |-> FALSE, tls |-> [t EXCEPT !.cipher = <<>>]]
    ELSE ProcessRecords(t.cipher, [t EXCEPT !.cipher = <<>>])

RECURSIVE Total(_)
Total(bufs) == IF bufs = <<>> THEN 0 ELSE Head(bufs) + Total(Tail(bufs))

RECURSIVE FirstNonEmpty(_)
FirstNonEmpty(bufs) ==
    IF bufs = <<>> THEN 0
    ELSE IF Head(bufs) > 0 THEN Head(bufs)
    ELSE FirstNonEmpty(Tail(bufs))

ReaderResult(kind, n, bytes, t) == [kind |-> kind, n |-> n, bytes |-> bytes, tls |-> t]

\* tls.reader().read_vectored(bufs): plaintext if there is any; else Ok(0)
\* after close_notify, UnexpectedEof after a bare TCP EOF, WouldBlock otherwise.
\* vectored: the reader fills every buffer, not only the first non-empty one.
ReaderRead(t, bufs, vectored) ==
    LET cap == IF vectored THEN Total(bufs) ELSE FirstNonEmpty(bufs)
        k == Min(cap, Len(t.plain))
    IN  IF cap = 0 THEN ReaderResult("empty", 0, <<>>, t)
        ELSE IF k > 0
        THEN ReaderResult("data", k, SubSeq(t.plain, 1, k),
                          [t EXCEPT !.plain = SubSeq(@, k + 1, Len(@))])
        ELSE IF t.closeNotify THEN ReaderResult("clean", 0, <<>>, t)
        ELSE IF t.seenEof THEN ReaderResult("UnexpectedEof", 0, <<>>, t)
        ELSE ReaderResult("WouldBlock", 0, <<>>, t)

(***************************************************************************)
(* Stream::read_vectored, lines 135-150.                                   *)
(***************************************************************************)
IoRes(t, w, blocks, ok, n, err, reader, bytes) ==
    [ tls |-> t, wire |-> w, blocks |-> blocks, ok |-> ok, n |-> n, err |-> err,
      reader |-> reader, bytes |-> bytes ]

\* A mutant of ReadPlaintext: the reader is called twice and the second
\* result is the one returned.
ReadPlaintextTwice(t, bufs, vectored) ==
    ReaderRead(ReaderRead(t, bufs, vectored).tls, bufs, vectored)

\* Line 143: tls.reader().read_vectored(bufs)
ReadPlaintext(t, bufs, vectored) == ReaderRead(t, bufs, vectored)

\* A mutant of MatchReaderResult: UnexpectedEof is not singled out.
MatchReaderResultNoEof(rr) ==
    IF rr.kind \in {"UnexpectedEof", "WouldBlock"}
    THEN [ok |-> FALSE, n |-> 0, err |-> rr.kind]
    ELSE [ok |-> TRUE, n |-> rr.n, err |-> "none"]

\* Lines 143-149: the match on the reader's result.
MatchReaderResult(rr) ==
    IF rr.kind = "UnexpectedEof" THEN [ok |-> TRUE, n |-> 0, err |-> "none"]
    ELSE IF rr.kind = "WouldBlock" THEN [ok |-> FALSE, n |-> 0, err |-> rr.kind]
    ELSE [ok |-> TRUE, n |-> rr.n, err |-> "none"]

ReadInputs == [take : 0..MaxPeerBytes + 2, sockErr : BOOLEAN, vectored : BOOLEAN]

StreamReadVectored(t, w, nonblocking, bufs, in) ==
    LET rd == IF WantsRead(t) THEN ReadTls(t, w, nonblocking, in.take, in.sockErr)
              ELSE TlsStep(TRUE, "none", FALSE, t, w)
        pr == IF WantsRead(t) THEN ProcessNewPackets(rd.tls)
              ELSE [ok |-> TRUE, tls |-> t]
        rr == ReadPlaintext(pr.tls, bufs, in.vectored)
        res == MatchReaderResult(rr)
    IN  IF rd.blocks THEN IoRes(t, w, TRUE, FALSE, 0, "none", "none", <<>>)
        ELSE IF ~rd.ok THEN IoRes(t, w, FALSE, FALSE, 0, rd.err, "none", <<>>)
        ELSE IF ~pr.ok THEN IoRes(pr.tls, rd.wire, FALSE, FALSE, 0, "InvalidData", "none", <<>>)
        ELSE IoRes(rr.tls, rd.wire, FALSE, res.ok, res.n, res.err, rr.kind,
                   IF res.ok THEN rr.bytes ELSE <<>>)

(***************************************************************************)
(* Stream::write_vectored, lines 160-170.                                  *)
(***************************************************************************)
\* tls.writer().write_vectored(bufs): the first n bytes become a record.
WriterWrite(t, bytes, n) ==
    IF n = 0 THEN t
    ELSE [t EXCEPT !.sendable = Append(@, Rec("data", SubSeq(bytes, 1, n)))]

\* write_tls is called once, not until wants_write() is false.
DrainOnce(t, w, sent) ==
    LET k == Min(Min(sent, 1), Len(t.sendable))
    IN  [ tls |-> [t EXCEPT !.sendable = SubSeq(@, k + 1, Len(@))],
          wire |-> [w EXCEPT !.out = @ \o SubSeq(t.sendable, 1, k)] ]

\* `sent` records leave through write_tls.
Drain(t, w, sent) ==
    LET k == Min(sent, Len(t.sendable))
    IN  [ tls |-> [t EXCEPT !.sendable = SubSeq(@, k + 1, Len(@))],
          wire |-> [w EXCEPT !.out = @ \o SubSeq(t.sendable, 1, k)] ]

WriteFails == {"none", "WouldBlock", "Interrupted"}
WriteInputs == [accept : 0..MaxGuestBytes + 1, sent : 0..MaxGuestBytes + 2, fail : WriteFails]

\* in.accept: how many bytes the writer takes; in.fail: how write_tls fails,
\* after in.sent records went out.
StreamWriteVectored(t, w, nonblocking, bytes, in) ==
    LET t1 == WriterWrite(t, bytes, in.accept)
        all == Len(t1.sendable)
        d == Drain(t1, w, IF in.fail = "none" THEN all ELSE in.sent)
    IN  IF in.fail = "none" \/ ~WantsWrite(t1)
        THEN IoRes(d.tls, d.wire, FALSE, TRUE, in.accept, "none", "none", <<>>)
        ELSE IoRes(d.tls, d.wire, FALSE, FALSE, 0, in.fail, "none", <<>>)

(***************************************************************************)
(* The other file operations of Stream, lines 152-186.                     *)
(***************************************************************************)
\* AnyStream's seek: a socket is not seekable.
AnySeek(t, w) == IoRes(t, w, FALSE, FALSE, 0, "badf", "none", <<>>)

\* Lines 180-182
StreamSeek(t, w) == AnySeek(t, w)

\* Lines 152-158
StreamReadVectoredAt(t, w) == IoRes(t, w, FALSE, FALSE, 0, "badf", "none", <<>>)

\* Lines 172-178
StreamWriteVectoredAt(t, w) == IoRes(t, w, FALSE, FALSE, 0, "badf", "none", <<>>)

\* A mutant of StreamPeek: the plaintext is taken from the reader.
StreamPeekReads(t, w) ==
    LET rr == ReaderRead(t, <<1>>, FALSE)
    IN  IF rr.kind = "data"
        THEN IoRes(rr.tls, w, FALSE, TRUE, rr.n, "none", rr.kind, rr.bytes)
        ELSE IoRes(t, w, FALSE, FALSE, 0, "badf", "none", <<>>)

\* Lines 184-186
StreamPeek(t, w) == IoRes(t, w, FALSE, FALSE, 0, "badf", "none", <<>>)

UnseekableOps == {"seek", "read_vectored_at", "write_vectored_at", "peek"}

OtherOp(op, t, w) ==
    IF op = "seek" THEN StreamSeek(t, w)
    ELSE IF op = "read_vectored_at" THEN StreamReadVectoredAt(t, w)
    ELSE IF op = "write_vectored_at" THEN StreamWriteVectoredAt(t, w)
    ELSE StreamPeek(t, w)

(***************************************************************************)
(* The guest's calls on the Stream, and the peer.                          *)
(***************************************************************************)
NoWire == [in |-> <<>>, inEof |-> FALSE, out |-> <<>>]

NoIo ==
    [ called |-> FALSE, op |-> "none", ok |-> FALSE, n |-> 0, err |-> "none",
      total |-> 0, reader |-> "none", bytes |-> <<>>,
      before |-> [tls |-> FreshTls(<<>>), wire |-> NoWire] ]

IoRecord(op, r, total) ==
    [ called |-> TRUE, op |-> op, ok |-> r.ok, n |-> r.n, err |-> r.err,
      total |-> total, reader |-> r.reader, bytes |-> r.bytes,
      before |-> [tls |-> tls, wire |-> wire] ]

BufSamples == { <<>>, <<1>>, <<0, 1, 1>> }

\* The plaintext the records carry.
RECURSIVE Payload(_)
Payload(recs) ==
    IF recs = <<>> THEN <<>>
    ELSE (IF Head(recs).t = "data" THEN Head(recs).bytes ELSE <<>>) \o Payload(Tail(recs))

\* first .. first+n-1
Bytes(first, n) == [i \in 1..n |-> first + i - 1]

ReadVectored ==
    /\ ~io.called
    /\ \E bufs \in BufSamples, in \in ReadInputs :
        LET r == StreamReadVectored(tls, wire, nb, bufs, in)
        IN  /\ ~r.blocks
            \* one input for each way the call can go
            /\ ~WantsRead(tls) => in.take = 0 /\ ~in.sockErr
            /\ WantsRead(tls) => /\ in.take <= Len(wire.in)
                                 /\ in.sockErr => in.take = 0
            /\ Total(bufs) = FirstNonEmpty(bufs) => ~in.vectored
            /\ tls' = r.tls
            /\ wire' = r.wire
            /\ guestRead' = guestRead \o r.bytes
            /\ io' = IoRecord("read_vectored", r, Total(bufs))
    /\ UNCHANGED <<nb, peerWrote, guestWrote>>
    /\ UNCHANGED <<execVars, attVars, connVars, shimVars, lockVars>>

WriteVectored ==
    /\ ~io.called
    /\ \E len \in 0..MaxGuestBytes, in \in WriteInputs :
        LET bytes == Bytes(guestWrote + 1, len)
            r == StreamWriteVectored(tls, wire, nb, bytes, in)
            pending == Len(WriterWrite(tls, bytes, in.accept).sendable)
        IN  /\ guestWrote + len <= MaxGuestBytes
            /\ in.accept <= len
            /\ len > 0 => in.accept > 0
            \* one input for each way the call can go
            /\ in.fail = "none" => in.sent = 0
            /\ in.fail # "none" => in.sent < pending
            /\ in.fail = "WouldBlock" => nb
            /\ tls' = r.tls
            /\ wire' = r.wire
            /\ guestWrote' = guestWrote + in.accept
            /\ io' = IoRecord("write_vectored", r, len)
    /\ UNCHANGED <<nb, peerWrote, guestRead>>
    /\ UNCHANGED <<execVars, attVars, connVars, shimVars, lockVars>>

Unseekable ==
    /\ ~io.called
    /\ \E op \in UnseekableOps :
        LET r == OtherOp(op, tls, wire)
        IN  /\ tls' = r.tls
            /\ wire' = r.wire
            /\ guestRead' = guestRead \o r.bytes
            /\ io' = IoRecord(op, r, 1)
    /\ UNCHANGED <<nb, peerWrote, guestWrote>>
    /\ UNCHANGED <<execVars, attVars, connVars, shimVars, lockVars>>

\* The guest runs on after a call returned.
IoResume ==
    /\ io.called
    /\ io' = NoIo
    /\ UNCHANGED <<tls, wire, nb, peerWrote, guestRead, guestWrote>>
    /\ UNCHANGED <<execVars, attVars, connVars, shimVars, lockVars>>

PeerOpen == ~wire.inEof /\ \A i \in 1..Len(wire.in) : wire.in[i].t # "close"

\* The peer writes n more plaintext bytes: one record.
PeerSend ==
    /\ ~io.called
    /\ PeerOpen /\ ~tls.closeNotify
    /\ \E n \in 1..2 :
        /\ peerWrote + n <= MaxPeerBytes
        /\ wire' = [wire EXCEPT !.in = Append(@, Rec("data", Bytes(peerWrote + 1, n)))]
        /\ peerWrote' = peerWrote + n
    /\ UNCHANGED <<tls, nb, guestRead, guestWrote, io>>
    /\ UNCHANGED <<execVars, attVars, connVars, shimVars, lockVars>>

\* The peer ends the TLS session (close_notify).
PeerCloseNotify ==
    /\ ~io.called
    /\ PeerOpen /\ ~tls.closeNotify
    /\ wire' = [wire EXCEPT !.in = Append(@, Rec("close", <<>>))]
    /\ UNCHANGED <<tls, nb, peerWrote, guestRead, guestWrote, io>>
    /\ UNCHANGED <<execVars, attVars, connVars, shimVars, lockVars>>

\* The peer's side of the TCP connection ends.
PeerShutdown ==
    /\ ~io.called
    /\ ~wire.inEof
    /\ wire' = [wire EXCEPT !.inEof = TRUE]
    /\ UNCHANGED <<tls, nb, peerWrote, guestRead, guestWrote, io>>
    /\ UNCHANGED <<execVars, attVars, connVars, shimVars, lockVars>>

\* A record that does not decrypt reaches the socket.
WireCorrupt ==
    /\ ~io.called
    /\ ~wire.inEof /\ ~tls.broken
    /\ \A i \in 1..Len(wire.in) : wire.in[i].t # "bad"
    /\ wire' = [wire EXCEPT !.in = Append(@, Rec("bad", <<>>))]
    /\ UNCHANGED <<tls, nb, peerWrote, guestRead, guestWrote, io>>
    /\ UNCHANGED <<execVars, attVars, connVars, shimVars, lockVars>>

\* A Stream as sock_accept or connect returns it: what the handshake left
\* queued is still to be written.
TlsInit ==
    /\ \E pending \in {<<>>, <<Rec("hs", <<>>)>>} : tls = FreshTls(pending)
    /\ wire = NoWire
    /\ nb \in BOOLEAN
    /\ peerWrote = 0
    /\ guestRead = <<>>
    /\ guestWrote = 0
    /\ io = NoIo

TlsIdle ==
    /\ tls = FreshTls(<<>>)
    /\ wire = NoWire
    /\ nb = FALSE
    /\ peerWrote = 0
    /\ guestRead = <<>>
    /\ guestWrote = 0
    /\ io = NoIo

TlsNext ==
    \/ ReadVectored \/ WriteVectored \/ Unseekable \/ IoResume
    \/ PeerSend \/ PeerCloseNotify \/ PeerShutdown \/ WireCorrupt

(***************************************************************************)
(* The preview-0 shim: impl WasiUnstable for Ctx.  A call gives Ok(val) or *)
(* Err(Error); the Error is a trap with a message or carries an errno.     *)
(***************************************************************************)
Ok(val) == [ok |-> TRUE, val |-> val, trap |-> FALSE, what |-> "none"]
ErrTrap(msg) == [ok |-> FALSE, val |-> 0, trap |-> TRUE, what |-> msg]
ErrErrno(errno) == [ok |-> FALSE, val |-> 0, trap |-> FALSE, what |-> errno]

SysRes(res, c) == [res |-> res, ctx |-> c]

\* The inner standard implementation, for the calls the model follows.
InnerArgsSizesGet(c) == SysRes(Ok(Len(c.args)), c)
InnerEnvironSizesGet(c) == SysRes(Ok(Len(c.env)), c)
InnerSchedYield(c) == SysRes(Ok(0), c)
InnerProcExit(c, status) == SysRes(ErrTrap("exit"), c)

InnerFdClose(c, fd) ==
    IF fd \in c.table THEN SysRes(Ok(0), [c EXCEPT !.table = @ \ {fd}])
    ELSE SysRes(ErrErrno("badf"), c)

InnerFdRenumber(c, fd, to) ==
    IF fd \in c.table THEN SysRes(Ok(0), [c EXCEPT !.table = (@ \ {fd}) \cup {to}])
    ELSE SysRes(ErrErrno("badf"), c)

\* Lines 26-28
args_sizes_get(c) == InnerArgsSizesGet(c)

\* Lines 38-40
environ_sizes_get(c) == InnerEnvironSizesGet(c)

\* Lines 73-75
fd_close(c, fd) == InnerFdClose(c, fd)

\* Lines 177-179
fd_renumber(c, fd, to) == InnerFdRenumber(c, fd, to)

\* Lines 342-344
proc_exit(c, status) == InnerProcExit(c, status)

\* Lines 346-348
proc_raise(c, sig) == SysRes(ErrTrap("proc_raise unsupported"), c)

\* Lines 350-352
sched_yield(c) == InnerSchedYield(c)

\* Lines 362-369
sock_recv(c, fd, flags) == SysRes(ErrTrap("sock_recv unsupported"), c)

\* Lines 371-378
sock_send(c, fd, flags) == SysRes(ErrTrap("sock_send unsupported"), c)

\* The shim answers sock_shutdown with an errno.
SockShutdownErrno(c, fd, how) ==
    SysRes(ErrErrno(IF fd \in c.table THEN "notsup" ELSE "badf"), c)

\* Lines 380-382
sock_shutdown(c, fd, how) == SysRes(ErrTrap("sock_shutdown unsupported"), c)

UnsupportedCalls == {"proc_raise", "sock_recv", "sock_send", "sock_shutdown"}
ForwardedCalls ==
    {"args_sizes_get", "environ_sizes_get", "fd_close", "fd_renumber", "proc_exit", "sched_yield"}
ShimCalls == UnsupportedCalls \cup ForwardedCalls

\* The guest's call `name` with arguments a and b, through the shim.
ShimCall(name, c, a, b) ==
    CASE name = "args_sizes_get" -> args_sizes_get(c)
      [] name = "environ_sizes_get" -> environ_sizes_get(c)
      [] name = "fd_close" -> fd_close(c, a)
      [] name = "fd_renumber" -> fd_renumber(c, a, b)
      [] name = "proc_exit" -> proc_exit(c, a)
      [] name = "proc_raise" -> proc_raise(c, a)
      [] name = "sched_yield" -> sched_yield(c)
      [] name = "sock_recv" -> sock_recv(c, a, b)
      [] name = "sock_send" -> sock_send(c, a, b)
      [] name = "sock_shutdown" -> sock_shutdown(c, a, b)

\* The same call made on the inner implementation.
InnerCall(name, c, a, b) ==
    CASE name = "args_sizes_get" -> InnerArgsSizesGet(c)
      [] name = "environ_sizes_get" -> InnerEnvironSizesGet(c)
      [] name = "fd_close" -> InnerFdClose(c, a)
      [] name = "fd_renumber" -> InnerFdRenumber(c, a, b)
      [] name = "proc_exit" -> InnerProcExit(c, a)
      [] name = "sched_yield" -> InnerSchedYield(c)

\* Lines 10-14: what the guest gets for a result: the value, an Errno, or a
\* Trap that ends it.
errno_from_error(res) ==
    IF res.ok THEN [kind |-> "ok", val |-> res.val, what |-> "none"]
    ELSE IF res.trap THEN [kind |-> "trap", val |-> 0, what |-> res.what]
    ELSE [kind |-> "errno", val |-> 0, what |-> res.what]

SysArgs == -1..MaxFd + 1

NoSys ==
    [ called |-> FALSE, name |-> "none", a |-> 0, b |-> 0,
      out |-> [kind |-> "ok", val |-> 0, what |-> "none"],
      before |-> [table |-> {}, env |-> <<>>, args |-> <<>>] ]

Syscall ==
    /\ ~sys.called
    /\ \E name \in ShimCalls, a \in SysArgs, b \in SysArgs :
        LET r == ShimCall(name, inner, a, b)
        IN  \* arguments a call does not have are 0
            /\ name \in {"args_sizes_get", "environ_sizes_get", "sched_yield"} => a = 0
            /\ name \notin {"fd_renumber", "sock_recv", "sock_send", "sock_shutdown"} => b = 0
            /\ name = "fd_renumber" => b \in 0..MaxFd
            /\ inner' = r.ctx
            /\ sys' = [ called |-> TRUE, name |-> name, a |-> a, b |-> b,
                        out |-> errno_from_error(r.res), before |-> inner ]
    /\ UNCHANGED <<execVars, attVars, connVars, tlsVars, lockVars>>

\* The guest runs on after a call that did not trap.
SysResume ==
    /\ sys.called /\ sys.out.kind # "trap"
    /\ sys' = NoSys
    /\ UNCHANGED inner
    /\ UNCHANGED <<execVars, attVars, connVars, tlsVars, lockVars>>

ShimInit ==
    /\ \E args \in ArgSamples :
        inner = [table |-> 0..MaxFd, env |-> <<"K=a">>, args |-> args]
    /\ sys = NoSys

ShimIdle ==
    /\ inner = [table |-> {}, env |-> <<>>, args |-> <<>>]
    /\ sys = NoSys

ShimNext == Syscall \/ SysResume

(***************************************************************************)
(* Two callers of one Stream: one in read_vectored, one in write_vectored. *)
(* Each takes self.lck.write() at lines 136 / 161 and holds the guard to   *)
(* the end of the function.  The peer answers what it receives.            *)
(***************************************************************************)
Callers == {"reader", "writer"}

\* A caller enters its function and reaches self.lck.write().
CallStart(t) ==
    /\ tpc[t] = "idle"
    /\ tpc' = [tpc EXCEPT ![t] = "waiting"]
    /\ UNCHANGED <<lck, tlsVars>>
    /\ UNCHANGED <<execVars, attVars, connVars, shimVars>>

\* Lines 136 / 161: lck.write() returns once nobody holds the lock.
LockAcquire(t) ==
    /\ tpc[t] = "waiting"
    /\ lck = "none"
    /\ lck' = t
    /\ tpc' = [tpc EXCEPT ![t] = "locked"]
    /\ UNCHANGED tlsVars
    /\ UNCHANGED <<execVars, attVars, connVars, shimVars>>

\* Lines 138-150 under the guard; the guard is dropped at the return, Ok or
\* Err.  A read_tls that blocks has not returned.  sockErr: the socket fails
\* under the call.
LockedRead(sockErr) ==
    /\ tpc["reader"] = "locked"
    /\ \E bufs \in BufSamples, in \in ReadInputs :
        LET r == StreamReadVectored(tls, wire, nb, bufs, in)
        IN  /\ ~r.blocks
            /\ in.sockErr = sockErr
            /\ ~WantsRead(tls) => in.take = 0 /\ ~in.sockErr
            /\ WantsRead(tls) => /\ in.take <= Len(wire.in)
                                 /\ in.sockErr => in.take = 0
            /\ Total(bufs) = FirstNonEmpty(bufs) => ~in.vectored
            /\ tls' = r.tls
            /\ wire' = r.wire
            /\ guestRead' = guestRead \o r.bytes
    /\ lck' = "none"
    /\ tpc' = [tpc EXCEPT !["reader"] = "idle"]
    /\ UNCHANGED <<nb, peerWrote, guestWrote, io>>
    /\ UNCHANGED <<execVars, attVars, connVars, shimVars>>

\* Lines 163-169 under the guard.
LockedWrite ==
    /\ tpc["writer"] = "locked"
    /\ \E len \in 0..MaxGuestBytes, in \in WriteInputs :
        LET bytes == Bytes(guestWrote + 1, len)
            r == StreamWriteVectored(tls, wire, nb, bytes, in)
            pending == Len(WriterWrite(tls, bytes, in.accept).sendable)
        IN  /\ guestWrote + len <= MaxGuestBytes
            /\ in.accept <= len
            /\ len > 0 => in.accept > 0
            /\ in.fail = "none" => in.sent = 0
            /\ in.fail # "none" => in.sent < pending
            /\ in.fail = "WouldBlock" => nb
            /\ tls' = r.tls
            /\ wire' = r.wire
            /\ guestWrote' = guestWrote + in.accept
    /\ lck' = "none"
    /\ tpc' = [tpc EXCEPT !["writer"] = "idle"]
    /\ UNCHANGED <<nb, peerWrote, guestRead, io>>
    /\ UNCHANGED <<execVars, attVars, connVars, shimVars>>

\* The peer waits for this side's bytes and answers each with one byte.
PeerRespond ==
    /\ peerWrote < Len(Payload(wire.out))
    /\ peerWrote < MaxPeerBytes
    /\ wire' = [wire EXCEPT !.in = Append(@, Rec("data", Bytes(peerWrote + 1, 1)))]
    /\ peerWrote' = peerWrote + 1
    /\ UNCHANGED <<tls, nb, guestRead, guestWrote, io>>
    /\ UNCHANGED lockVars
    /\ UNCHANGED <<execVars, attVars, connVars, shimVars>>

LockInit ==
    /\ lck = "none"
    /\ tpc = [t \in Callers |-> "idle"]

LockNext ==
    \/ \E t \in Callers : CallStart(t)
    \/ \E t \in Callers : LockAcquire(t)
    \/ \E sockErr \in BOOLEAN : LockedRead(sockErr)
    \/ LockedWrite
    \/ PeerRespond

\* A caller that can go on does, and so does the peer; nothing makes the
\* socket fail.
LockFairness ==
    /\ \A t \in Callers : WF_vars(LockAcquire(t))
    /\ WF_vars(LockedRead(FALSE))
    /\ WF_vars(LockedWrite)
    /\ WF_vars(PeerRespond)

ExecInit ==
    /\ pc = "start"
    /\ config = EmptyConfig
    /\ netFail = {}
    /\ arity = 0
    /\ table = EmptyTable
    /\ env = <<>>
    /\ argv = <<>>
    /\ entries = 0
    /\ callres = NoCall
    /\ result = NoResult

ExecNext == ExecuteFailEarly \/ ExecuteSetup \/ GuestCall

AttIdle ==
    /\ hasMemory = FALSE
    /\ platform = "ok"
    /\ mem = NoBytes
    /\ att = NoAtt

Init == ExecInit /\ AttIdle /\ ConnInit /\ TlsIdle /\ ShimIdle /\ LockInit

Next == ExecNext

Spec == Init /\ [][Next]_vars

AttSpecInit == ExecInit /\ AttInit /\ ConnInit /\ TlsIdle /\ ShimIdle /\ LockInit

SpecAttest == AttSpecInit /\ [][AttNext]_vars

ConnSpecInit == ExecInit /\ AttIdle /\ ConnInit /\ TlsIdle /\ ShimIdle /\ LockInit

SpecConn == ConnSpecInit /\ [][ConnNext]_vars

TlsSpecInit == ExecInit /\ AttIdle /\ ConnInit /\ TlsInit /\ ShimIdle /\ LockInit

SpecTls == TlsSpecInit /\ [][TlsNext]_vars

ShimSpecInit == ExecInit /\ AttIdle /\ ConnInit /\ TlsIdle /\ ShimInit /\ LockInit

SpecShim == ShimSpecInit /\ [][ShimNext]_vars

LockSpecInit == ExecInit /\ AttIdle /\ ConnInit /\ TlsInit /\ ShimIdle /\ LockInit

SpecLock == LockSpecInit /\ [][LockNext]_vars /\ LockFairness

(***************************************************************************)
(* Properties of Runtime::execute.                                         *)
(***************************************************************************)
GuestEntered == pc = "guest" \/ entries > 0

SlotNames(files) == [i \in 1..Len(files) |-> files[i].name]

HasColon(s) == \E i \in 1..Len(s) : s[i] = ":"

StartupView ==
    /\ Len(env) = 2 + Len(config.env)
    /\ env[1].k = "FD_COUNT"
    /\ ParseDecimal(env[1].v) = Len(config.files)
    /\ env[1].v = ToDecimal(Len(config.files))
    /\ env[2].k = "FD_NAMES"
    /\ SubSeq(env, 3, Len(env)) = config.env
    /\ argv = <<"main.wasm">> \o config.args

\* C2 as stated: whenever the guest has been entered the startup view holds and
\* splitting FD_NAMES on ':' gives the slot names, for every files sequence.
C2_SplitGivesNamesAlways ==
    GuestEntered =>
        /\ StartupView
        /\ Split(env[2].v, ":") = SlotNames(config.files)

\* C2 amended: whenever the guest has been entered the startup view holds;
\* splitting FD_NAMES on ':' gives the slot names when files is not empty and
\* no name holds a ':'; for no files FD_NAMES is the empty string.
C2_StartupView ==
    GuestEntered =>
        /\ StartupView
        /\ (config.files # <<>> /\ \A i \in 1..Len(config.files) :
                                      ~HasColon(config.files[i].name))
              => Split(env[2].v, ":") = SlotNames(config.files)
        /\ config.files = <<>> => env[2].v = <<>>

C2_Witness ==
    /\ pc = "guest"
    /\ Len(config.files) >= 2
    /\ \A i \in 1..Len(config.files) : ~HasColon(config.files[i].name)
    /\ \E i \in 1..Len(config.files) : config.files[i].name = <<>>
    /\ Split(env[2].v, ":") = SlotNames(config.files)
    /\ config.env # <<>>
    /\ config.args # <<>>

IsSuccessfulEnd(out) ==
    \/ out.kind = "ok"
    \/ out.kind = "trap" /\ out.hasExit /\ out.code = 0

\* C3: once the default function was called, execute returns the result
\* vector, of the function's result arity, exactly when the call returned
\* normally or trapped with exit status 0; otherwise it fails with an error
\* whose cause is the call's error.
C3_ExitInterpretation ==
    entries > 0 =>
        /\ result.ok <=> IsSuccessfulEnd(callres)
        /\ result.ok => Len(result.values) = arity /\ pc = "returned"
        /\ ~result.ok => /\ result.cause = callres
                         /\ result.context = "failed to execute default function"
                         /\ pc = "failed"

C3_Witness ==
    /\ entries > 0
    /\ callres.kind = "trap" /\ callres.hasExit /\ callres.code = 0
    /\ result.ok
    /\ arity > 0
    /\ Len(result.values) = arity

(***************************************************************************)
(* Properties of host::attestation_report.  The i32 arguments are guest    *)
(* addresses and lengths: as the code does (`as u32`), the properties read *)
(* them as unsigned words.                                                 *)
(***************************************************************************)
\* The call returned before wasmhelper::write.
AttEarlyReturn == att.res.stage \in {"len", "platform", "read", "attest"}

NonceInside == AsU32(att.ptr) + AsU32(att.len) <= att.before.size

OutCount == Min(Len(att.res.report), AsU32(att.out_len))
OutInside == AsU32(att.out_ptr) + OutCount <= att.before.size

\* C4: a call that fails (nonce_len > 64, no exported memory, the nonce not
\* inside the memory, no platform, the attestor failing, the output region not
\* inside the memory) returns normally and leaves the guest memory as it was,
\* writing no byte.
C4_FailureIsSilent ==
    att.called =>
        /\ ~att.res.panic
        /\ att.len > NonceMax => att.res.stage = "len"
        /\ ~hasMemory => AttEarlyReturn
        /\ ~NonceInside => AttEarlyReturn
        /\ platform # "ok" => AttEarlyReturn
        /\ (att.attested /\ ~att.attestOk) => att.res.stage = "attest"
        /\ (AttEarlyReturn \/ ~OutInside) => (mem = att.before /\ att.res.wrote = 0)

C4_Witness ==
    /\ att.called
    /\ att.len > NonceMax
    /\ hasMemory /\ platform = "ok" /\ NonceInside
    /\ att.before.nz # NoBytes.nz
    /\ mem = att.before

\* C5: when the attestor succeeded, the call stores the first
\* min(|report|, out_len) bytes of the report at out_ptr and changes no other
\* byte, or, when that region is not inside the memory, stores nothing.
C5_WritesReportPrefix ==
    (att.called /\ att.attestOk) =>
        LET p == AsU32(att.out_ptr)
            k == OutCount
            region == p .. (p + k - 1)
            tracked == (DOMAIN mem.nz) \cup (DOMAIN att.before.nz)
        IN  /\ att.res.stage = "write"
            /\ ~att.res.panic
            /\ mem.size = att.before.size
            /\ IF OutInside
               THEN /\ att.res.wrote = k
                    /\ \A a \in region : ByteAt(mem, a) = att.res.report[a - p + 1]
                    /\ \A a \in tracked \ region : ByteAt(mem, a) = ByteAt(att.before, a)
               ELSE mem = att.before /\ att.res.wrote = 0

C5_Witness ==
    /\ att.called /\ att.attestOk
    /\ att.out_ptr < 0
    /\ att.out_len > 0
    /\ att.res.wrote = 1
    /\ Len(att.res.report) > 1
    /\ ByteAt(mem, AsU32(att.out_ptr)) = att.res.report[1]
    /\ mem # att.before

(***************************************************************************)
(* Properties of the Listener and Stream objects.                          *)
(***************************************************************************)
FdHeld(fd) ==
    \/ listener.alive /\ listener.fd = fd
    \/ \E s \in streams : s.fd = fd

\* C7: every OS fd a Stream or Listener wrapped, or that sock_accept / connect
\* took and gave up, is closed exactly once when its owner is gone, and not
\* closed while its owner lives.
C7_ClosedExactlyOnce ==
    \A fd \in 1..Len(fdt) : fdt[fd] = IF FdHeld(fd) THEN 0 ELSE 1

C7_Witness ==
    /\ acc.op = "sock_accept" /\ acc.step = "fdflags"
    /\ fdt[Len(fdt)] = 1
    /\ \E fd \in 1..Len(fdt) : fd # Len(fdt) /\ fd # listener.fd /\ fdt[fd] = 1
    /\ ~listener.alive => fdt[listener.fd] = 1

IsIoErr(e) == e.base \in {"io::Error", "ErrorKind::Io"}
CarriesCause(e, cause) ==
    e.base = cause \/ \E i \in 1..Len(e.contexts) : e.contexts[i] = cause

\* C8: a Stream that sock_accept returned has finished its handshake; when
\* accepting, creating the TLS state or the handshake fails, sock_accept gives
\* an io error that carries the cause and no Stream, and leaves the Listener
\* as it was.
C8_AcceptAfterHandshake ==
    /\ \A s \in streams : ~IsHandshaking(s.hs)
    /\ acc.op = "sock_accept" =>
        /\ acc.ok => /\ ~IsHandshaking(acc.stream.hs)
                     /\ acc.stream \in streams
                     /\ acc.stream.mode = "server"
        /\ acc.step \in {"accept", "tlsnew", "handshake"} =>
              /\ ~acc.ok
              /\ acc.stream = NoStream
              /\ IsIoErr(acc.err)
              /\ CarriesCause(acc.err, acc.cause)
              /\ ListenerView = acc.before
              /\ listener.alive

C8_Witness ==
    /\ acc.op = "sock_accept" /\ acc.ok
    /\ acc.stream \in streams
    /\ ~IsHandshaking(acc.stream.hs)
    /\ \E fd \in 1..Len(fdt) : fd # listener.fd /\ fdt[fd] = 1

(***************************************************************************)
(* Plaintext through a Stream.                                             *)
(***************************************************************************)
IsPrefix(a, b) == Len(a) <= Len(b) /\ SubSeq(b, 1, Len(a)) = a

\* What the peer wrote, and what the TLS writer took from the guest.
PeerWritten == Bytes(1, peerWrote)
GuestAccepted == Bytes(1, guestWrote)

\* C6: whatever the interleaving of read_vectored and write_vectored, the
\* bytes read_vectored has returned are a prefix of the bytes the peer wrote,
\* and the bytes that reached the peer are, in order, the first of the bytes
\* the TLS writer accepted from the guest.
C6_PlaintextInOrder ==
    /\ IsPrefix(guestRead, PeerWritten)
    /\ IsPrefix(Payload(wire.out), GuestAccepted)

\* Both directions carried two bytes, the reads in two calls.
C6_Witness ==
    /\ guestRead = <<1, 2>>
    /\ Payload(wire.out) = <<1, 2>>
    /\ io.called /\ io.op = "read_vectored" /\ io.bytes = <<2>>

IsRead == io.called /\ io.op = "read_vectored"

\* The session was closed by close_notify and the guest has had every byte.
CleanlyClosed ==
    /\ tls.closeNotify /\ ~tls.broken
    /\ tls.plain = <<>> /\ io.bytes = <<>>

\* C9: read_vectored returns Ok(0) when the plaintext reader reports
\* UnexpectedEof, and when the peer closed the session with close_notify and
\* no plaintext is left; the reader's other error is returned as that error;
\* a returned count is at most the total length of the buffers.
C9_ReadResult ==
    IsRead =>
        /\ io.reader = "UnexpectedEof" => io.ok /\ io.n = 0
        /\ CleanlyClosed => io.ok /\ io.n = 0
        /\ io.reader = "WouldBlock" => ~io.ok /\ io.err = "WouldBlock"
        /\ io.ok => io.n <= io.total

\* The peer's TCP side ended without close_notify, and the guest read into a
\* buffer with room.
C9_Witness ==
    /\ IsRead /\ io.reader = "UnexpectedEof"
    /\ io.total > 0 /\ io.ok /\ io.n = 0
    /\ wire.inEof /\ ~tls.closeNotify

\* C10: seek, read_vectored_at, write_vectored_at and peek on a Stream give
\* the bad-file-descriptor error, and leave the TLS state and the TCP
\* endpoint as they were.
C10_Unseekable ==
    io.called /\ io.op \in UnseekableOps =>
        /\ ~io.ok /\ io.err = "badf"
        /\ tls = io.before.tls
        /\ wire = io.before.wire

\* peek on a Stream that holds received plaintext.
C10_Witness ==
    /\ io.called /\ io.op = "peek" /\ io.err = "badf"
    /\ tls.plain # <<>>

(***************************************************************************)
(* The calls the shim does not support.                                    *)
(***************************************************************************)
\* C11: proc_raise, sock_recv, sock_send and sock_shutdown end in a trap with
\* the message "<name> unsupported" whatever their arguments, and leave the
\* context as it was; every other call has the inner implementation's result
\* and effect on the context.
C11_UnsupportedTrap ==
    sys.called =>
        IF sys.name \in UnsupportedCalls
        THEN /\ sys.out.kind = "trap"
             /\ sys.out.what = sys.name \o " unsupported"
             /\ inner = sys.before
        ELSE LET r == InnerCall(sys.name, sys.before, sys.a, sys.b)
             IN  /\ inner = r.ctx
                 /\ sys.out = errno_from_error(r.res)

\* sock_shutdown on an open descriptor, after an fd_close went through.
C11_Witness ==
    /\ sys.called /\ sys.name = "sock_shutdown" /\ sys.out.kind = "trap"
    /\ sys.a \in inner.table
    /\ inner.table # 0..MaxFd

(***************************************************************************)
(* write_vectored and the pending TLS output.                              *)
(***************************************************************************)
IsWrite == io.called /\ io.op = "write_vectored"

\* C12: when write_vectored returns the accepted count n, the TLS state has
\* nothing left to write: every record queued before or by the call, and so
\* every byte the writer has accepted, is on the TCP endpoint.
C12_DrainedOnReturn ==
    IsWrite /\ io.ok =>
        /\ ~WantsWrite(tls)
        /\ Payload(wire.out) = GuestAccepted
        /\ Len(wire.out) = Len(io.before.wire.out) + Len(io.before.tls.sendable)
                             + (IF io.n > 0 THEN 1 ELSE 0)

\* A write of two bytes that found a record still queued.
C12_Witness ==
    /\ IsWrite /\ io.ok /\ io.n = 2
    /\ io.before.tls.sendable # <<>>
    /\ tls.sendable = <<>>

(***************************************************************************)
(* Stream.lck under two callers.                                           *)
(***************************************************************************)
\* C13: read_vectored and write_vectored of one Stream exclude each other
\* through Stream.lck, the lock is free again after every return, and a call
\* that holds the lock always comes to release it, also when the reader waits
\* for a peer that waits for this side's write.
C13_LockAlwaysReleased ==
    /\ [](\A t \in Callers : tpc[t] = "locked" <=> lck = t)
    /\ [](lck # "none" => <>(lck = "none"))

(***************************************************************************)
(* The nonce handed to the attestor.                                       *)
(***************************************************************************)
\* C14: platform.attest is called only with a nonce of at most 64 bytes, and
\* that nonce is the nonce_len bytes of the guest memory at nonce_ptr, for
\* every i32 nonce_ptr and nonce_len and every memory size.
C14_NonceAtMost64 ==
    (att.called /\ att.attested) =>
        /\ att.res.nonce.size <= NonceMax
        /\ att.res.nonce = Slice(att.before, AsU32(att.ptr), AsU32(att.len))

(***************************************************************************)
(* A write_vectored that returns an error.                                 *)
(***************************************************************************)
\* The plaintext that reached the peer during the last call.
DeliveredByCall == Len(Payload(wire.out)) - Len(Payload(io.before.wire.out))

\* C15: the peer receives exactly the bytes counted in the return values of
\* successful write_vectored calls: a call that returns an error delivers
\* nothing, and a call that returns n delivers n bytes, none of them from an
\* earlier call that failed.
C15_FailedWriteDeliversNothing ==
    IsWrite => DeliveredByCall = (IF io.ok THEN io.n ELSE 0)

====
